---- MODULE Spec2Model ----
(***************************************************************************)
(* Model of the aws-synthetics construct library: the Rate schedule        *)
(* expression, the Code variants (inline, asset, S3), the handler and      *)
(* name validators and the Canary construct.                               *)
(*                                                                         *)
(* Strings are modelled as sequences of one-character strings, so that     *)
(* split, endsWith, length and the regular expression are computed on the  *)
(* characters as the TypeScript code computes them.  An optional value is  *)
(* the empty sequence (undefined) or a one-element sequence.               *)
(***************************************************************************)
EXTENDS Integers, Sequences, FiniteSets, TLC

VARIABLES
    call,       \* the last API call made by the caller: its inputs and what it threw
    rate,       \* the Rate objects constructed so far (the last one), as an optional
    codes,      \* the Code instances constructed so far, by reference (index)
    tree,       \* the construct tree: the nodes registered under the app
    roles,      \* the IAM roles that exist, with their inline policies
    canaries,   \* the Canary objects constructed
    resources,  \* the canary resource definitions emitted, with their properties
    deps,       \* the dependency edges registered between constructs
    disk,       \* the asset directories in which a nodejs.zip file exists
    pending,    \* the archive streams still to be written: the directory and the entries queued
    history     \* the bind, metric and alarm calls made so far and what each returned or threw

vars == <<call, rate, codes, tree, roles, canaries, resources, deps, disk, pending, history>>

(***************************************************************************)
(* Bounds of the model.                                                    *)
(***************************************************************************)
\* longest numeric part of a rate expression that the caller tries
MaxNumLen == 3
\* the most pieces a canary name is put together from
MaxNamePieces == 3
\* the most pieces a handler is put together from
MaxHandlerPieces == 4
\* the most bind calls the caller makes on the Code instances it holds
MaxBinds == 3
\* the most metric and alarm calls the caller makes on a canary
MaxCalls == 3

(***************************************************************************)
(* Strings.                                                                *)
(***************************************************************************)
None == << >>
Some(v) == << v >>

Digits == {"0", "1", "2", "3", "4", "5", "6", "7", "8", "9"}

DigitVal(c) ==
    CASE c = "0" -> 0 [] c = "1" -> 1 [] c = "2" -> 2 [] c = "3" -> 3
      [] c = "4" -> 4 [] c = "5" -> 5 [] c = "6" -> 6 [] c = "7" -> 7
      [] c = "8" -> 8 [] c = "9" -> 9

\* all sequences over S of length at most n
SeqsUpTo(S, n) == UNION { [1..k -> S] : k \in 0..n }

\* the string of n copies of the character c
Rep(c, n) == [i \in 1..n |-> c]

RECURSIVE Concat(_)
\* concatenation of a sequence of strings
Concat(ss) == IF ss = << >> THEN << >> ELSE Head(ss) \o Concat(Tail(ss))

RECURSIVE SplitFrom(_, _, _)
\* String.prototype.split(sep) for a one-character separator: cur is the
\* piece being read; an empty string splits into one empty piece.
SplitFrom(s, sep, cur) ==
    IF s = << >> THEN << cur >>
    ELSE IF Head(s) = sep THEN << cur >> \o SplitFrom(Tail(s), sep, << >>)
    ELSE SplitFrom(Tail(s), sep, Append(cur, Head(s)))

split(s, sep) == SplitFrom(s, sep, << >>)

\* String.prototype.endsWith
endsWith(s, suffix) ==
    /\ Len(suffix) <= Len(s)
    /\ SubSeq(s, Len(s) - Len(suffix) + 1, Len(s)) = suffix

(***************************************************************************)
(* Number(string): the numeric value of a string, or NaN.  The strings     *)
(* the model converts are over digits, sign, dot and letters that form no  *)
(* exponent, hexadecimal or Infinity literal, and carry no white space     *)
(* (they are pieces of a split on the space).  A value is num / den with   *)
(* a sign.                                                                 *)
(***************************************************************************)
NaN == [nan |-> TRUE, neg |-> FALSE, num |-> 0, den |-> 1]

RECURSIVE DigitsValue(_)
DigitsValue(ds) ==
    IF ds = << >> THEN 0
    ELSE 10 * DigitsValue(SubSeq(ds, 1, Len(ds) - 1)) + DigitVal(ds[Len(ds)])

RECURSIVE Pow10(_)
Pow10(n) == IF n = 0 THEN 1 ELSE 10 * Pow10(n - 1)

AllDigits(s) == \A i \in 1..Len(s) : s[i] \in Digits

\* an unsigned decimal literal: digits, digits '.', digits '.' digits, '.' digits
UnsignedNumber(s) ==
    LET parts == split(s, ".") IN
    IF s = << >> \/ Len(parts) > 2 THEN NaN
    ELSE IF Len(parts) = 1
         THEN IF AllDigits(s)
              THEN [nan |-> FALSE, neg |-> FALSE, num |-> DigitsValue(s), den |-> 1]
              ELSE NaN
    ELSE IF /\ AllDigits(parts[1]) /\ AllDigits(parts[2])
            /\ Len(parts[1]) + Len(parts[2]) > 0
         THEN [nan |-> FALSE, neg |-> FALSE,
               num |-> DigitsValue(parts[1] \o parts[2]),
               den |-> Pow10(Len(parts[2]))]
         ELSE NaN

Number(s) ==
    IF s = << >> THEN [nan |-> FALSE, neg |-> FALSE, num |-> 0, den |-> 1]
    ELSE IF Head(s) = "-"
         THEN LET u == UnsignedNumber(Tail(s)) IN
              IF u.nan THEN NaN ELSE [u EXCEPT !.neg = (u.num # 0)]
    ELSE IF Head(s) = "+" THEN UnsignedNumber(Tail(s))
    ELSE UnsignedNumber(s)

isNaN(v) == v.nan

\* v > k for a number v and a natural k (false for NaN, as in JavaScript)
GreaterThan(v, k) == ~v.nan /\ ~v.neg /\ v.num > k * v.den

(***************************************************************************)
(* Rate (lib/canary.ts).                                                   *)
(***************************************************************************)
NoError == "none"
ErrRateSyntax == "Expression must follow the syntax 'rate(number unit)'"
ErrRateRange == "Expression must not be greater than 1 hour"

StrRate == <<"r", "a", "t", "e">>
StrMinute == <<"m", "i", "n", "u", "t", "e">>
StrMinutes == StrMinute \o <<"s">>
StrHour == <<"h", "o", "u", "r">>
StrHours == StrHour \o <<"s">>

\* verifyExpression without the bound on hours
verifyExpressionNoHourBound(expression) ==
    LET exp == split(expression, " ")
        rateAndNumber == split(exp[1], "(")
    IN  IF \/ Len(exp) # 2
           \/ Len(rateAndNumber) # 2
           \/ rateAndNumber[1] # StrRate
           \/ isNaN(Number(rateAndNumber[2]))
           \/ /\ exp[2] # StrMinute \o <<")">>
              /\ exp[2] # StrMinutes \o <<")">>
              /\ exp[2] # StrHour \o <<")">>
        THEN ErrRateSyntax
        ELSE IF exp[2] = StrMinutes \o <<")">> /\ GreaterThan(Number(rateAndNumber[2]), 60)
        THEN ErrRateRange
        ELSE NoError

\* Rate.verifyExpression: the error it throws, or NoError
verifyExpression(expression) ==
    LET exp == split(expression, " ")
        rateAndNumber == split(exp[1], "(")
    IN  IF \/ Len(exp) # 2
           \/ Len(rateAndNumber) # 2
           \/ rateAndNumber[1] # StrRate
           \/ isNaN(Number(rateAndNumber[2]))
           \/ /\ exp[2] # StrMinute \o <<")">>
              /\ exp[2] # StrMinutes \o <<")">>
              /\ exp[2] # StrHour \o <<")">>
        THEN ErrRateSyntax
        ELSE IF \/ exp[2] = StrHour \o <<")">> /\ GreaterThan(Number(rateAndNumber[2]), 1)
                \/ exp[2] = StrMinutes \o <<")">> /\ GreaterThan(Number(rateAndNumber[2]), 60)
        THEN ErrRateRange
        ELSE NoError

\* a toString that writes the expression anew, the number without a leading zero
RateToStringRewritten(r) ==
    LET exp == split(r.expression, " ")
        head == split(exp[1], "(")
        n == IF Len(head[2]) > 1 /\ Head(head[2]) = "0" THEN Tail(head[2]) ELSE head[2]
    IN  head[1] \o <<"(">> \o n \o <<" ">> \o exp[2]

\* Rate.toString()
RateToString(r) == r.expression

\* what the caller writes between the parts of a rate expression
RatePrefixes == { StrRate \o <<"(">>, StrRate, <<"r", "a", "t", "(">>, StrRate \o <<"(", "(">> }
RateNumbers == SeqsUpTo({"0", "1", "6", "-", ".", "x"}, MaxNumLen)
RateSeparators == { <<" ">>, <<"_">>, << >>, <<" ", " ">> }
RateUnits == { StrMinute, StrMinutes, StrHour, StrHours, << >> }
RateSuffixes == { <<")">>, << >> }

\* a call whose outcome is not known yet
Pending == "pending"

\* new Rate(expression): the constructor verifies, then stores the expression
NewRate ==
    /\ call.op = "Rate" /\ call.error = Pending
    /\ LET error == verifyExpression(call.expression) IN
        /\ call' = [call EXCEPT !.error = error]
        /\ rate' = IF error = NoError THEN Some([expression |-> call.expression]) ELSE rate
        /\ UNCHANGED <<codes, tree, roles, canaries, resources, deps, disk, pending, history>>

\* the caller is about to evaluate new Rate(pre n sep unit suf)
InitRate ==
    /\ \E pre \in RatePrefixes, n \in RateNumbers, sep \in RateSeparators,
          unit \in RateUnits, suf \in RateSuffixes :
            call = [op |-> "Rate", expression |-> Concat(<<pre, n, sep, unit, suf>>),
                    parts |-> <<pre, n, sep, unit, suf>>, error |-> Pending]
    /\ rate = None
    /\ codes = << >> /\ tree = {} /\ roles = {} /\ canaries = {}
    /\ resources = {} /\ deps = {}
    /\ disk = {} /\ pending = {} /\ history = << >>

NextRate == NewRate

SpecRate == InitRate /\ [][NextRate]_vars

(***************************************************************************)
(* The construct tree (the framework's scope abstraction).  A node is      *)
(* registered under a scope with an id; a scope holds one node per id.     *)
(***************************************************************************)
ErrDuplicate == "There is already a Construct with name"

Node(scope, id, type) == [scope |-> scope, id |-> id, type |-> type]

\* the path of a construct: the path of its scope, then its id
PathOf(scope, id) == Append(scope, id)

HasChild(t, scope, id) == \E n \in t : n.scope = scope /\ n.id = id

(***************************************************************************)
(* Code (lib/code.ts and its later revision).                              *)
(***************************************************************************)
ErrInlineEmpty == "Canary inline code cannot be empty"
ErrInlineTooLarge == "Canary source is too large"
ErrBucketName == "bucketName is undefined for the provided bucket"
ErrAssetStructure == "Asset must have the file path 'nodejs/node_modules'"
ErrAssetNotZip == "Asset must be a .zip file or a directory"
ErrAssetNotFound == "Cannot find asset"
ErrFileSystem == "ENOENT or ENOTDIR"
ErrBindOrder == "bindToResource() must be called after bind()"

\* the two ceilings of the inline code size, by revision
InlineLimit4K == 4096
InlineLimit450K == 460800
InlineLimits == {InlineLimit4K, InlineLimit450K}

\* An inline source text is a run of one character: ch repeated len times.
Text(ch, len) == [ch |-> ch, len |-> len]
length(text) == text.len

\* the ceiling taken as exclusive
InlineCodeCheckExclusive(limit, code) ==
    IF length(code) = 0 THEN ErrInlineEmpty
    ELSE IF length(code) >= limit THEN ErrInlineTooLarge
    ELSE NoError

\* what the too-large error reports: 'must be <= ' limit ' but is ' length
TooLargeDetail(limit, code) == [max |-> limit, actual |-> length(code)]

\* new InlineCode(code), with the ceiling of the revision: the error or NoError
InlineCodeCheck(limit, code) ==
    IF length(code) = 0 THEN ErrInlineEmpty
    ELSE IF length(code) > limit THEN ErrInlineTooLarge
    ELSE NoError

InlineCode(code) == [kind |-> "inline", code |-> Some(code), s3 |-> None,
                     path |-> None, rev |-> "", asset |-> None]

\* new S3Code(bucket, key, objectVersion): a bucket is its optional name
S3CodeCheck(bucket) == IF bucket = None THEN ErrBucketName ELSE NoError

S3Code(bucket, key, objectVersion) ==
    [kind |-> "s3", code |-> None,
     s3 |-> Some([bucketName |-> bucket[1], objectKey |-> key, objectVersion |-> objectVersion]),
     path |-> None, rev |-> "", asset |-> None]

\* A local path: its segments, the extension of the last one, and what the
\* file system holds there ("dir", "file" or "missing").
Path(segs, ext, kind) == [segs |-> segs, ext |-> ext, kind |-> kind]

\* assetPath.includes('nodejs/node_modules')
IncludesNodeModules(p) ==
    \E i \in 1..(Len(p.segs) - 1) : p.segs[i] = "nodejs" /\ p.segs[i + 1] = "node_modules"

\* new AssetCode(path, options): revision "zip" (lib/code.ts) checks nothing,
\* revision "direct" checks the shape of the path
AssetCodeCheck(rev, p) ==
    IF rev = "direct" /\ p.ext # ".zip" /\ ~IncludesNodeModules(p)
    THEN ErrAssetStructure ELSE NoError

AssetCode(rev, p) == [kind |-> "asset", code |-> None, s3 |-> None,
                      path |-> Some(p), rev |-> rev, asset |-> None]

\* new s3_assets.Asset(scope, 'Code', {path}): the framework's asset.  It
\* throws when the scope already holds a 'Code' or the path does not exist;
\* a directory or a .zip file is a zip archive.
AssetError(t, scope, exists) ==
    IF HasChild(t, scope, "Code") THEN ErrDuplicate
    ELSE IF ~exists THEN ErrAssetNotFound
    ELSE NoError

Asset(scope, segs, isZip) ==
    [node |-> PathOf(scope, "Code"), source |-> segs, isZipArchive |-> isZip,
     s3BucketName |-> <<"AssetParameters">> \o segs \o <<"S3Bucket">>,
     s3ObjectKey |-> <<"AssetParameters">> \o segs \o <<"S3VersionKey">>]

\* The outcome of a call on the world: what it threw, what it returned, and
\* the parts of the state it changed.
Outcome(error, ret, t, cs, pend) ==
    [error |-> error, ret |-> ret, tree |-> t, codes |-> cs, pending |-> pend]

CodeConfig(inlineCode, s3Location) == [inlineCode |-> inlineCode, s3Location |-> s3Location]

\* the files the user has placed in an asset directory
UserFiles(segs) ==
    IF segs = <<"test", "nodejs", "node_modules">> THEN {"canary.js"}
    ELSE {"index.js", "util.js"}

\* fs.readdirSync(this.path): the user's files, and the nodejs.zip of an
\* earlier run when it has been written
readdirSync(dsk, segs) ==
    UserFiles(segs) \cup (IF segs \in dsk THEN {"nodejs.zip"} ELSE {})

\* AssetCode.createAsset (lib/code.ts): opens the stream of path/nodejs.zip,
\* lists the directory, queues every entry under nodejs/node_modules,
\* finalizes, and creates the asset from path/nodejs.zip, which exists only
\* if an earlier run has written it.  The stream is written when the event
\* loop runs.
createAsset(t, cs, pend, dsk, c, scope) ==
    LET p == cs[c].path[1]
        zip == Append(p.segs, "nodejs.zip")
        archive == [dir |-> p.segs,
                    entries |-> { <<"nodejs", "node_modules", file>> :
                                    file \in readdirSync(dsk, p.segs) }]
    IN  IF p.kind # "dir"
        THEN Outcome(ErrFileSystem, None, t, cs, pend)
        ELSE LET error == AssetError(t, scope, p.segs \in dsk) IN
             IF error # NoError
             THEN Outcome(error, None, t, cs, pend \cup {archive})
             ELSE Outcome(NoError, Some(Asset(scope, zip, TRUE)),
                          t \cup {Node(scope, "Code", "Asset")}, cs, pend \cup {archive})

\* the revision that hands the path itself to the asset
newAsset(t, cs, pend, c, scope) ==
    LET p == cs[c].path[1]
        error == AssetError(t, scope, p.kind # "missing")
    IN  IF error # NoError
        THEN Outcome(error, None, t, cs, pend)
        ELSE Outcome(NoError, Some(Asset(scope, p.segs, p.kind = "dir" \/ p.ext = ".zip")),
                     t \cup {Node(scope, "Code", "Asset")}, cs, pend)

\* a bind that creates the asset anew on every call
AssetCodeBindAnew(t, cs, pend, dsk, c, scope) ==
    LET made == IF cs[c].rev = "zip"
                THEN createAsset(t, cs, pend, dsk, c, scope)
                ELSE newAsset(t, cs, pend, c, scope)
    IN  IF made.error # NoError THEN made
        ELSE LET asset == made.ret[1]
                 cs2 == [cs EXCEPT ![c].asset = Some(asset)]
             IN  IF ~asset.isZipArchive
                 THEN Outcome(ErrAssetNotZip, None, made.tree, cs2, made.pending)
                 ELSE Outcome(NoError,
                              Some(CodeConfig(None,
                                   Some([bucketName |-> asset.s3BucketName,
                                         objectKey |-> asset.s3ObjectKey,
                                         objectVersion |-> None]))),
                              made.tree, cs2, made.pending)

\* AssetCode.bind: create the asset unless this instance has one, then
\* require a zip archive
AssetCodeBind(t, cs, pend, dsk, c, scope) ==
    LET made == IF cs[c].asset = None
                THEN IF cs[c].rev = "zip"
                     THEN createAsset(t, cs, pend, dsk, c, scope)
                     ELSE newAsset(t, cs, pend, c, scope)
                ELSE Outcome(NoError, cs[c].asset, t, cs, pend)
    IN  IF made.error # NoError THEN made
        ELSE LET asset == made.ret[1]
                 cs2 == [cs EXCEPT ![c].asset = Some(asset)]
             IN  IF ~asset.isZipArchive
                 THEN Outcome(ErrAssetNotZip, None, made.tree, cs2, made.pending)
                 ELSE Outcome(NoError,
                              Some(CodeConfig(None,
                                   Some([bucketName |-> asset.s3BucketName,
                                         objectKey |-> asset.s3ObjectKey,
                                         objectVersion |-> None]))),
                              made.tree, cs2, made.pending)

\* a bind whose S3 location leaves the version of the object out
bindWithoutVersion(t, cs, pend, dsk, c, scope) ==
    IF cs[c].kind = "inline"
    THEN Outcome(NoError, Some(CodeConfig(cs[c].code, None)), t, cs, pend)
    ELSE IF cs[c].kind = "s3"
    THEN Outcome(NoError,
                 Some(CodeConfig(None, Some([cs[c].s3[1] EXCEPT !.objectVersion = None]))),
                 t, cs, pend)
    ELSE AssetCodeBind(t, cs, pend, dsk, c, scope)

\* Code.bind(scope), by variant
bind(t, cs, pend, dsk, c, scope) ==
    IF cs[c].kind = "inline"
    THEN Outcome(NoError, Some(CodeConfig(cs[c].code, None)), t, cs, pend)
    ELSE IF cs[c].kind = "s3"
    THEN Outcome(NoError, Some(CodeConfig(None, cs[c].s3)), t, cs, pend)
    ELSE AssetCodeBind(t, cs, pend, dsk, c, scope)

\* a bindToResource that does not look at the asset of the instance
bindToResourceUnchecked(cs, res, c, resource) ==
    [error |-> NoError, resources |-> res]

\* Code.bindToResource(resource): nothing for inline and S3 code; asset code
\* requires its asset and adds the asset's metadata to the resource
bindToResource(cs, res, c, resource) ==
    IF cs[c].kind # "asset" THEN [error |-> NoError, resources |-> res]
    ELSE IF cs[c].asset = None THEN [error |-> ErrBindOrder, resources |-> res]
    ELSE [error |-> NoError,
          resources |-> res \cup {[node |-> resource,
                                   props |-> [assetPath |-> cs[c].asset[1].source,
                                              assetProperty |-> "Code"]]}]

(***************************************************************************)
(* Canary (lib/canary.ts).                                                 *)
(***************************************************************************)
ErrHandlerFormat == "Canary Handler must end in '.handler'"
ErrHandlerLength == "Canary Handler must be less than 21 characters"
ErrNameFormat == "Canary Name must be lowercase, numbers, hyphens, or underscores (no spaces)."
ErrNameLength == "Canary Name must be less than 21 characters"

\* the longest handler and the longest name accepted
MaxHandlerLength == 21
MaxNameLength == 21

StrHandler == <<"h", "a", "n", "d", "l", "e", "r">>
StrDotHandler == <<".">> \o StrHandler

Lower == {"a", "b", "c", "d", "e", "f", "g", "h", "i", "j", "k", "l", "m",
          "n", "o", "p", "q", "r", "s", "t", "u", "v", "w", "x", "y", "z"}

\* the character class [0-9a-z_-] of the name's regular expression
NameChars == Digits \cup Lower \cup {"_", "-"}

\* Canary.verifyHandler: the error it throws, or NoError
verifyHandler(handler) ==
    IF Len(split(handler, ".")) # 2 \/ split(handler, ".")[2] # StrHandler
    THEN ErrHandlerFormat
    ELSE IF Len(handler) > MaxHandlerLength THEN ErrHandlerLength
    ELSE NoError

\* Test.validateHandler (lib/code.ts): the error it throws, or NoError
validateHandler(handler) ==
    IF ~endsWith(handler, StrDotHandler) THEN ErrHandlerFormat
    ELSE IF Len(handler) > MaxHandlerLength THEN ErrHandlerLength
    ELSE NoError

\* Canary.verifyName: the regular expression ^[0-9a-z_-]+$, then the length
verifyName(name) ==
    IF ~(Len(name) >= 1 /\ \A i \in 1..Len(name) : name[i] \in NameChars)
    THEN ErrNameFormat
    ELSE IF Len(name) > MaxNameLength THEN ErrNameLength
    ELSE NoError

RECURSIVE DecimalString(_)
\* String(n) for a natural number
DecimalString(n) ==
    LET d == <<"0", "1", "2", "3", "4", "5", "6", "7", "8", "9">>[(n % 10) + 1] IN
    IF n < 10 THEN << d >> ELSE Append(DecimalString(n \div 10), d)

\* Duration: an amount of seconds
Seconds(n) == [seconds |-> n]
Days(n) == [seconds |-> n * 86400]
toSeconds(d) == d.seconds
toDays(d) == d.seconds \div 86400

\* the statement of the policy of a role the canary creates
CanaryPolicy ==
    {"s3:PutObject", "s3:GetBucketLocation", "s3:ListAllMyBuckets",
     "cloudwatch:PutMetricData", "logs:CreateLogGroup", "logs:CreateLogStream",
     "logs:PutLogEvents"}

\* a role that drops the inline policies it is given
RoleWithoutPolicies(node, policy) == [node |-> node, roleArn |-> <<"arn">> \o node, inlinePolicies |-> {}]

Role(node, policy) == [node |-> node, roleArn |-> <<"arn">> \o node, inlinePolicies |-> policy]

\* Bucket.s3UrlForObject() of a bucket the canary creates
s3UrlForObject(node) == <<"s3-url">> \o node

RateOneMinute == [expression |-> StrRate \o <<"(", "1", " ">> \o StrMinute \o <<")">>]

RateFiveMinutes == [expression |-> StrRate \o <<"(", "5", " ">> \o StrMinutes \o <<")">>]

RateOneHour == [expression |-> StrRate \o <<"(", "1", " ">> \o StrHour \o <<")">>]

\* the run-once expression without its closing parenthesis
RateRunOnceUnclosed == [expression |-> StrRate \o <<"(", "0", " ">> \o StrMinute]

RateRunOnce == [expression |-> StrRate \o <<"(", "0", " ">> \o StrMinute \o <<")">>]

\* the static members of Rate
RatePresets == {RateOneMinute, RateFiveMinutes, RateOneHour, RateRunOnce}

RuntimeVersion == <<"s", "y", "n", "-", "1", ".", "0">>

\* The properties a caller may give to a Canary; an option left out is None.
CanaryProps(canaryName, handler, code, role, artifactS3Location, rt, timeout, lifetime, enableCanary, successRetentionPeriod, failureRetentionPeriod) ==
    [canaryName |-> canaryName, handler |-> handler, code |-> code, role |-> role,
     artifactS3Location |-> artifactS3Location, rate |-> rt, timeout |-> timeout,
     lifetime |-> lifetime, enableCanary |-> enableCanary,
     successRetentionPeriod |-> successRetentionPeriod,
     failureRetentionPeriod |-> failureRetentionPeriod]

\* what the Canary constructor leaves behind: the error thrown, if any, and the state
Built(error, t, cs, pend, rs, cans, res, dp) ==
    [error |-> error, tree |-> t, codes |-> cs, pending |-> pend, roles |-> rs,
     canaries |-> cans, resources |-> res, deps |-> dp]

\* an optional string is truthy unless it is left out or empty (a || b)
Truthy(a) == a # None /\ a[1] # << >>

\* the constructor creates a bucket of its own unless a location is given
OwnBucket(props) == ~Truthy(props.artifactS3Location)

\* a constructor that creates a role of its own in every case
OwnRoleAlways(props) == props.role = props.role

\* the constructor creates a role of its own unless a role is given
OwnRole(props) == props.role = None

\* props.lifetime || Duration.seconds(0)
LifetimeOrDefault(props) == IF props.lifetime # None THEN props.lifetime[1] ELSE Seconds(0)

\* props.rate || Rate.ONE_MINUTE
RateOrDefault(props) == IF props.rate # None THEN props.rate[1] ELSE RateOneMinute

\* a default timeout that is not the documented one
TimeoutOrDefaultZero(props) == IF props.timeout # None THEN props.timeout[1] ELSE Seconds(0)

\* props.timeout || Duration.seconds(60)
TimeoutOrDefault(props) == IF props.timeout # None THEN props.timeout[1] ELSE Seconds(60)

\* the validations in the opposite order: the handler before the name
PropsErrorHandlerFirst(props) ==
    IF verifyHandler(props.handler) # NoError THEN verifyHandler(props.handler)
    ELSE verifyName(props.canaryName)

\* The error thrown while the properties of the resource are evaluated, in
\* the order of the object literal: the name is verified before the handler.
PropsError(props) ==
    IF verifyName(props.canaryName) # NoError THEN verifyName(props.canaryName)
    ELSE verifyHandler(props.handler)

\* the properties with the code block of the earlier revision: handler and script only
CfnCanaryPropsScriptOnly(props, s3Location, role, code) ==
    [artifactS3Location |-> s3Location,
     executionRoleArn |-> role.roleArn,
     startCanaryAfterCreation |->
         IF props.enableCanary # None THEN props.enableCanary[1] ELSE TRUE,
     runtimeVersion |-> RuntimeVersion,
     name |-> props.canaryName,
     timeoutInSeconds |-> toSeconds(TimeoutOrDefault(props)),
     durationInSeconds |-> DecimalString(toSeconds(LifetimeOrDefault(props))),
     expression |-> RateToString(RateOrDefault(props)),
     failureRetentionPeriod |->
         IF props.failureRetentionPeriod # None
         THEN Some(toDays(props.failureRetentionPeriod[1])) ELSE None,
     successRetentionPeriod |->
         IF props.successRetentionPeriod # None
         THEN Some(toDays(props.successRetentionPeriod[1])) ELSE None,
     handler |-> props.handler,
     script |-> code.inlineCode,
     s3Bucket |-> None,
     s3Key |-> None,
     s3ObjectVersion |-> None]

\* a variant whose start flag is props.enableCanary || true
CfnCanaryPropsOrTrue(props, s3Location, role, code) ==
    [artifactS3Location |-> s3Location,
     executionRoleArn |-> role.roleArn,
     startCanaryAfterCreation |->
         IF props.enableCanary # None /\ props.enableCanary[1] THEN TRUE ELSE TRUE,
     runtimeVersion |-> RuntimeVersion,
     name |-> props.canaryName,
     timeoutInSeconds |-> toSeconds(TimeoutOrDefault(props)),
     durationInSeconds |-> DecimalString(toSeconds(LifetimeOrDefault(props))),
     expression |-> RateToString(RateOrDefault(props)),
     failureRetentionPeriod |->
         IF props.failureRetentionPeriod # None
         THEN Some(toDays(props.failureRetentionPeriod[1])) ELSE None,
     successRetentionPeriod |->
         IF props.successRetentionPeriod # None
         THEN Some(toDays(props.successRetentionPeriod[1])) ELSE None,
     handler |-> props.handler,
     script |-> code.inlineCode,
     s3Bucket |-> IF code.s3Location # None
                  THEN Some(code.s3Location[1].bucketName) ELSE None,
     s3Key |-> IF code.s3Location # None
               THEN Some(code.s3Location[1].objectKey) ELSE None,
     s3ObjectVersion |-> IF code.s3Location # None
                         THEN code.s3Location[1].objectVersion ELSE None]

\* the properties of the resource, from the props, the artifact location,
\* the role and the bound code
CfnCanaryProps(props, s3Location, role, code) ==
    [artifactS3Location |-> s3Location,
     executionRoleArn |-> role.roleArn,
     startCanaryAfterCreation |->
         IF props.enableCanary # None THEN props.enableCanary[1] ELSE TRUE,
     runtimeVersion |-> RuntimeVersion,
     name |-> props.canaryName,
     timeoutInSeconds |-> toSeconds(TimeoutOrDefault(props)),
     durationInSeconds |-> DecimalString(toSeconds(LifetimeOrDefault(props))),
     expression |-> RateToString(RateOrDefault(props)),
     failureRetentionPeriod |->
         IF props.failureRetentionPeriod # None
         THEN Some(toDays(props.failureRetentionPeriod[1])) ELSE None,
     successRetentionPeriod |->
         IF props.successRetentionPeriod # None
         THEN Some(toDays(props.successRetentionPeriod[1])) ELSE None,
     handler |-> props.handler,
     script |-> code.inlineCode,
     s3Bucket |-> IF code.s3Location # None
                  THEN Some(code.s3Location[1].bucketName) ELSE None,
     s3Key |-> IF code.s3Location # None
               THEN Some(code.s3Location[1].objectKey) ELSE None,
     s3ObjectVersion |-> IF code.s3Location # None
                         THEN code.s3Location[1].objectVersion ELSE None]

\* new Canary(scope, id, props): the constructor, statement by statement.
\* It registers itself, creates the bucket and the role that are not given,
\* binds the code, and evaluates the properties of the resource (which
\* verifies the name and the handler) before it registers the resource and
\* the dependency on the role.  A throw leaves what was registered before it.
Canary(t, cs, pend, dsk, rs, cans, res, dp, scope, id, props) ==
    LET this == PathOf(scope, id)
        t1 == t \cup {Node(scope, id, "Canary")}
        t2 == IF OwnBucket(props)
              THEN t1 \cup {Node(this, "ServiceBucket", "Bucket")} ELSE t1
        s3Location == IF OwnBucket(props)
                      THEN s3UrlForObject(PathOf(this, "ServiceBucket"))
                      ELSE props.artifactS3Location[1]
        role == IF OwnRole(props) THEN Role(PathOf(this, "ServiceRole"), CanaryPolicy)
                ELSE props.role[1]
        t3 == IF OwnRole(props) THEN t2 \cup {Node(this, "ServiceRole", "Role")} ELSE t2
        rs3 == IF OwnRole(props) THEN rs \cup {role} ELSE rs
        bound == bind(t3, cs, pend, dsk, props.code, this)
        resource == PathOf(this, "Resource")
    IN  IF HasChild(t, scope, id)
        THEN Built(ErrDuplicate, t, cs, pend, rs, cans, res, dp)
        ELSE IF bound.error # NoError
        THEN Built(bound.error, bound.tree, bound.codes, bound.pending, rs3, cans, res, dp)
        ELSE IF PropsError(props) # NoError
        THEN Built(PropsError(props), bound.tree, bound.codes, bound.pending, rs3,
                   cans, res, dp)
        ELSE Built(NoError,
                   bound.tree \cup {Node(this, "Resource", "CfnCanary")},
                   bound.codes, bound.pending, rs3,
                   cans \cup {[node |-> this, role |-> role,
                               canaryName |-> <<"ref">> \o resource]},
                   res \cup {[node |-> resource,
                              props |-> CfnCanaryProps(props, s3Location, role, bound.ret[1])]},
                   dp \cup {[from |-> resource, to |-> role.node]})

(***************************************************************************)
(* Metrics and alarms of a Canary (lib/canary.ts).  Metric and Alarm are   *)
(* classes of the CloudWatch library: a Metric is a plain descriptor, an   *)
(* Alarm is a construct registered under its scope.                        *)
(***************************************************************************)
Minutes(n) == [seconds |-> n * 60]

MetricNamespace == "CloudWatchSynthetics"

\* MetricOptions: what a caller may override; an option left out is None
MetricOptions(statistic, period, dimensions, label) ==
    [statistic |-> statistic, period |-> period, dimensions |-> dimensions, label |-> label]

NoOptions == MetricOptions(None, None, None, None)

\* a spread in which a key of the defaults wins over the same key of props
SpreadDefaultsFirst(defaults, props) ==
    [k \in DOMAIN defaults |-> IF defaults[k] # None THEN defaults[k] ELSE props[k]]

\* { ...defaults, ...props }: a key of props replaces the same key of defaults
Spread(defaults, props) ==
    [k \in DOMAIN defaults |-> IF props[k] # None THEN props[k] ELSE defaults[k]]

\* the statistic as the Metric stores it: the short forms are written out
normalizeStatistic(stat) ==
    CASE stat \in {"avg", "average"} -> "Average"
      [] stat = "sum" -> "Sum"
      [] stat \in {"min", "minimum"} -> "Minimum"
      [] stat \in {"max", "maximum"} -> "Maximum"
      [] stat \in {"n", "samplecount"} -> "SampleCount"
      [] OTHER -> stat

\* new Metric(props): the descriptor; the statistic defaults to the average
\* and the period to five minutes
NewMetric(namespace, metricName, props) ==
    [namespace |-> namespace,
     metricName |-> metricName,
     dimensions |-> props.dimensions,
     statistic |-> normalizeStatistic(IF props.statistic # None
                                      THEN props.statistic[1] ELSE "Average"),
     period |-> IF props.period # None THEN props.period[1] ELSE Minutes(5),
     label |-> props.label]

\* Metric.attachTo(construct): the same descriptor, for use in the construct's stack
attachTo(m, construct) == m

\* a variant of metric that leaves the dimension of the canary out
metricNoDimension(canary, metricName, props) ==
    attachTo(NewMetric(MetricNamespace, metricName,
                       Spread(MetricOptions(Some("avg"), None, None, None), props)),
             canary.node)

\* canary.metric(metricName, props)
metric(canary, metricName, props) ==
    attachTo(NewMetric(MetricNamespace, metricName,
                       Spread(MetricOptions(Some("avg"), None,
                                            Some([CanaryName |-> canary.canaryName]), None),
                              props)),
             canary.node)

metricDuration(canary, props) == metric(canary, "Duration", props)

metricSuccessPercent(canary, props) == metric(canary, "SuccessPercent", props)

metricFailed(canary, props) == metric(canary, "Failed", props)

\* a variant of metricAll that ignores what the caller overrides
metricAllNoOverride(metricName, props) ==
    NewMetric(MetricNamespace, metricName, Spread(NoOptions, NoOptions))

\* Canary.metricAll(metricName, props)
metricAll(metricName, props) ==
    NewMetric(MetricNamespace, metricName, Spread(NoOptions, props))

metricAllSuccessPercent(props) ==
    metricAll("SuccessPercent", Spread(MetricOptions(Some("avg"), None, None, None), props))

metricAllDuration(props) ==
    metricAll("Duration", Spread(MetricOptions(Some("avg"), None, None, None), props))

\* AlarmProps: the metric and the configuration of an alarm
AlarmProps(m, threshold, evaluationPeriods, statistic, alarmName) ==
    [metric |-> m, threshold |-> threshold, evaluationPeriods |-> evaluationPeriods,
     statistic |-> statistic, alarmName |-> alarmName]

\* what a method that may register constructs leaves behind
Made(error, t, res) == [error |-> error, tree |-> t, resources |-> res]

\* new Alarm(scope, id, props): registers the alarm under the scope
Alarm(t, res, scope, id, props) ==
    IF HasChild(t, scope, id)
    THEN Made(ErrDuplicate, t, res)
    ELSE Made(NoError, t \cup {Node(scope, id, "Alarm")},
              res \cup {[node |-> PathOf(scope, id), props |-> props]})

\* a variant of createAlarm with the defaults of addAlarm: the name is the id
createAlarmNamed(t, res, canary, id, props) ==
    Alarm(t, res, canary.node, id,
          [props EXCEPT !.alarmName = IF props.alarmName # None
                                      THEN props.alarmName ELSE Some(id)])

\* canary.createAlarm(id, props)
createAlarm(t, res, canary, id, props) == Alarm(t, res, canary.node, id, props)

(***************************************************************************)
(* Test (lib/code.ts): a custom test pairs a Code with a handler.          *)
(***************************************************************************)
ErrTestSources == "One of test and custom must be specified, but not both"

\* new Test(testCode, customCode): the error it throws, or NoError
TestCheck(testCode, customCode) ==
    IF (testCode # None /\ customCode # None) \/ (testCode = None /\ customCode = None)
    THEN ErrTestSources
    ELSE IF customCode # None THEN validateHandler(customCode[1].handler)
    ELSE NoError

\* a Test that stores the custom code as both of its sources
TestBothSources(testCode, customCode) == [testCode |-> customCode, customCode |-> customCode]

Test(testCode, customCode) == [testCode |-> testCode, customCode |-> customCode]

\* Test.custom(scope, options) of lib/test-script.ts: binds the code to the
\* scope and wraps the configuration (the handler and the bound code); the
\* constructor stores it
TestScriptCustom(t, cs, pend, dsk, scope, options) ==
    LET b == bind(t, cs, pend, dsk, options.code, scope) IN
    IF b.error # NoError THEN b
    ELSE Outcome(NoError,
                 Some([config |-> [handler |-> options.handler,
                                   inlineCode |-> b.ret[1].inlineCode,
                                   s3Location |-> b.ret[1].s3Location]]),
                 b.tree, b.codes, b.pending)

\* Test.custom(options) of the revision whose constructor stores its arguments
TestDraftCustom(options) == [test |-> None, custom |-> Some(options)]

\* new HeartBeatTemplate(url): the script of the template, the text before
\* the url, the url as given, and the text after it
HeartBeatTemplate(url) ==
    [inlineCode |-> <<"var synthetics = require('Synthetics'); ... const URL = \"">>
                    \o url
                    \o <<"\"; let page = await synthetics.getPage(); ...">>]

\* Test.heartBeat(url) of lib/test-script.ts: the constructor stores the configuration
TestScriptHeartBeat(url) ==
    [config |-> [handler |-> <<"i", "n", "d", "e", "x">> \o StrDotHandler,
                 inlineCode |-> Some(HeartBeatTemplate(url).inlineCode),
                 s3Location |-> None]]

\* Test.heartBeat(url) of the revision whose constructor stores its arguments:
\* the configuration is the first argument and the second is left out
TestDraftHeartBeat(url) ==
    [test |-> Some([handler |-> <<"i", "n", "d", "e", "x">> \o StrDotHandler,
                    inlineCode |-> Some(HeartBeatTemplate(url).inlineCode),
                    s3Location |-> None]),
     custom |-> None]

(***************************************************************************)
(* The caller.  One behaviour is one statement of a program that uses the  *)
(* library on a new stack: Init draws the statement and its arguments, the *)
(* actions evaluate it.                                                    *)
(***************************************************************************)
Str_mycanary == <<"m", "y", "c", "a", "n", "a", "r", "y">>
Str_index == <<"i", "n", "d", "e", "x">>
Str_indexHandler == Str_index \o StrDotHandler

Str_s3Location == <<"s", "3", ":", "/", "/", "b">>

\* the names and handlers the caller tries: every way of putting pieces together
NamePieces == { <<"a">>, <<"0">>, <<"_">>, <<"-">>, <<"A">>, <<" ">>, Rep("b", 10) }
NameInputs == { Concat(ps) : ps \in SeqsUpTo(NamePieces, MaxNamePieces) }
HandlerPieces == { <<"x">>, <<".">>, StrHandler, Rep("a", 13) }
HandlerInputs == { Concat(ps) : ps \in SeqsUpTo(HandlerPieces, MaxHandlerPieces) }

\* the lengths of inline code the caller tries: around zero and each ceiling
InlineTexts ==
    { Text("x", n) : n \in {0, 1, 3} \cup { l + d : l \in InlineLimits, d \in {-1, 0, 1} } }

\* the local paths of the caller, with what the file system holds there
AssetPaths ==
    { Path(<<"test", "canary">>, "", "dir"),
      Path(<<"test", "nodejs", "node_modules">>, "", "dir"),
      Path(<<"test", "nodejs", "node_modules", "canary.js">>, ".js", "file"),
      Path(<<"test", "canary.zip">>, ".zip", "file"),
      Path(<<"test", "nodejs", "node_modules", "gone">>, "", "missing") }

\* the Code instances the caller holds: each one has passed its constructor
CodeSamples ==
    { InlineCode(Text("f", 3)),
      S3Code(Some("mybucket"), "key", None),
      S3Code(Some("mybucket"), "key", Some("v1")) }
    \cup { AssetCode(a[1], a[2]) :
               a \in { b \in {"zip", "direct"} \X AssetPaths : AssetCodeCheck(b[1], b[2]) = NoError } }

\* the new stack, in which the caller has defined a role of their own
UserRole == Role(<<"stack", "MyRole">>, {})
StackTree == { Node(<< >>, "stack", "Stack"), Node(<<"stack">>, "MyRole", "Role") }

\* the properties of the test helpers: one property varies, the rest is valid
DefaultProps ==
    CanaryProps(Str_mycanary, Str_indexHandler, 1, None, None, None, None, None,
                None, None, None)

\* new Canary(stack, 'Canary', props), with rate: new Rate(rateExpr) when given
CanaryCall(props, rateExpr) ==
    [op |-> "Canary", stage |-> IF rateExpr = None THEN "canary" ELSE "rate",
     props |-> props, rateExpr |-> rateExpr, error |-> Pending]

\* the calls of the test helpers: the name, or the handler, varies
HelperCalls ==
    { CanaryCall([DefaultProps EXCEPT !.canaryName = n], None) : n \in NameInputs }
    \cup { CanaryCall([DefaultProps EXCEPT !.handler = h], None) :
             h \in HandlerInputs \cup {<<"a", ".", "b">> \o StrDotHandler} }

\* Test.heartBeat(url) with the url of the integration test, with the empty
\* url and with a url that holds a quote
HeartBeatCalls ==
    { [op |-> "Test.heartBeat", rev |-> rev, url |-> url, error |-> Pending, ret |-> None] :
        rev \in {"script", "draft"},
        url \in { << >>, <<"h", "t", "t", "p", "s", ":", "/", "/", "k", ".", "i", "o">>,
                  <<"\"", ";", "x">> } }

\* canaries with the start flag and the retention periods given or left out
OptionCalls ==
    { CanaryCall([DefaultProps EXCEPT !.enableCanary = e,
                                      !.successRetentionPeriod = s,
                                      !.failureRetentionPeriod = f], None) :
        e \in {None, Some(TRUE), Some(FALSE)},
        s \in {None, Some(Days(1)), Some(Days(31))},
        f \in {None, Some(Days(1)), Some(Days(2))} }

\* the calls in which every property varies over a few values
CanaryCalls ==
    { CanaryCall(CanaryProps(n, h, 1, role, loc, None, timeout, None, None, None, None), e) :
        n \in {Str_mycanary, <<"m", "y", "C", "a", "n", "a", "r", "y">>,
               Rep("b", 10) \o Rep("b", 10) \o <<"a", "a">>},
        h \in {Str_indexHandler, Str_index \o <<".", "f", "u", "n", "c", "t", "i", "o", "n">>,
               <<"x">> \o Rep("a", 13) \o StrDotHandler},
        role \in {None, Some(UserRole)},
        loc \in {None, Some(<< >>), Some(Str_s3Location)},
        timeout \in {None, Some(Seconds(30))},
        e \in {None,
               Some(StrRate \o <<"(", "5", " ">> \o StrMinutes \o <<")">>),
               Some(StrRate \o <<"(", "1", "_">> \o StrMinute \o <<")">>),
               Some(StrRate \o <<"(", "1", "0", "0", " ">> \o StrMinutes \o <<")">>)} }

\* the calls of the test helper whose rate varies: the static members of
\* Rate and expressions of the caller, among them unusual ones: 'rate(20 minutes)',
\* 'rate( hour)', 'rate(01 minute)', 'rate(1 hours)', 'rate(2 hour)'
RateHelperCalls ==
    { CanaryCall(DefaultProps, Some(e)) :
        e \in { r.expression : r \in RatePresets }
               \cup { StrRate \o <<"(", "2", "0", " ">> \o StrMinutes \o <<")">>,
                      StrRate \o <<"(", " ">> \o StrHour \o <<")">>,
                      StrRate \o <<"(", "0", "1", " ">> \o StrMinute \o <<")">>,
                      StrRate \o <<"(", "1", " ">> \o StrHours \o <<")">>,
                      StrRate \o <<"(", "2", " ">> \o StrHour \o <<")">> } }

\* Test.custom of lib/code.ts, of lib/test-script.ts and of the draft revision
TestCalls ==
    { [op |-> op, handler |-> h, code |-> 1, error |-> Pending, ret |-> None] :
        op \in {"Test.custom", "TestScript.custom", "TestDraft.custom"},
        h \in HandlerInputs }

InlineCalls ==
    { [op |-> "InlineCode", limit |-> l, code |-> text, error |-> Pending, detail |-> None] :
        l \in InlineLimits, text \in InlineTexts }

\* Code.fromAsset(path).bind(stack), in either revision of AssetCode
AssetCalls ==
    { [op |-> "fromAsset", rev |-> rev, path |-> p, stage |-> "constructor",
       error |-> Pending, ret |-> None] :
        rev \in {"zip", "direct"}, p \in AssetPaths }

Init ==
    /\ rate = None /\ tree = StackTree /\ roles = {UserRole} /\ canaries = {}
    /\ resources = {} /\ deps = {} /\ pending = {} /\ history = << >>
    /\ \/ /\ call \in CanaryCalls
          /\ \E code \in CodeSamples : codes = << code >>
          /\ disk \in SUBSET { p.segs : p \in {q \in AssetPaths : q.kind = "dir"} }
       \/ /\ call \in HelperCalls \cup RateHelperCalls \cup TestCalls \cup OptionCalls
                       \cup HeartBeatCalls
          /\ codes = << InlineCode(Text("f", 3)) >>
          /\ disk = {}
       \/ /\ call \in InlineCalls
          /\ codes = << >>
          /\ disk = {}
       \/ /\ call \in AssetCalls
          /\ codes = << >>
          /\ disk \in SUBSET { p.segs : p \in {q \in AssetPaths : q.kind = "dir"} }

\* the argument rate: new Rate(rateExpr) is evaluated before the constructor is entered
CanaryRate ==
    /\ call.op = "Canary" /\ call.stage = "rate"
    /\ LET error == verifyExpression(call.rateExpr[1]) IN
        /\ call' = IF error # NoError
                   THEN [call EXCEPT !.error = error, !.stage = "done"]
                   ELSE [call EXCEPT !.stage = "canary",
                                     !.props.rate = Some([expression |-> call.rateExpr[1]])]
        /\ rate' = IF error = NoError THEN Some([expression |-> call.rateExpr[1]]) ELSE rate
    /\ UNCHANGED <<codes, tree, roles, canaries, resources, deps, disk, pending, history>>

\* new Canary(stack, 'Canary', props)
CanaryNew ==
    /\ call.op = "Canary" /\ call.stage = "canary"
    /\ LET b == Canary(tree, codes, pending, disk, roles, canaries, resources, deps,
                       <<"stack">>, "Canary", call.props) IN
        /\ call' = [call EXCEPT !.error = b.error, !.stage = "done"]
        /\ tree' = b.tree /\ codes' = b.codes /\ pending' = b.pending
        /\ roles' = b.roles /\ canaries' = b.canaries
        /\ resources' = b.resources /\ deps' = b.deps
    /\ UNCHANGED <<rate, disk, history>>

\* Test.custom({code, handler})
TestCustom ==
    /\ call.op = "Test.custom" /\ call.error = Pending
    /\ LET customCode == Some([code |-> call.code, handler |-> call.handler])
           error == TestCheck(None, customCode)
       IN  call' = [call EXCEPT !.error = error,
                                !.ret = IF error = NoError
                                        THEN Some(Test(None, customCode)) ELSE None]
    /\ UNCHANGED <<rate, codes, tree, roles, canaries, resources, deps, disk, pending, history>>

\* Test.custom(stack, {code, handler}) of lib/test-script.ts
TestScriptCustomCall ==
    /\ call.op = "TestScript.custom" /\ call.error = Pending
    /\ LET b == TestScriptCustom(tree, codes, pending, disk, <<"stack">>,
                                 [code |-> call.code, handler |-> call.handler])
       IN  /\ call' = [call EXCEPT !.error = b.error, !.ret = b.ret]
           /\ tree' = b.tree /\ codes' = b.codes /\ pending' = b.pending
    /\ UNCHANGED <<rate, roles, canaries, resources, deps, disk, history>>

\* Test.custom({code, handler}) of the draft revision
TestDraftCustomCall ==
    /\ call.op = "TestDraft.custom" /\ call.error = Pending
    /\ call' = [call EXCEPT !.error = NoError,
                            !.ret = Some(TestDraftCustom([code |-> call.code,
                                                          handler |-> call.handler]))]
    /\ UNCHANGED <<rate, codes, tree, roles, canaries, resources, deps, disk, pending, history>>

\* Test.heartBeat(url), in either revision that has it
TestHeartBeat ==
    /\ call.op = "Test.heartBeat" /\ call.error = Pending
    /\ call' = [call EXCEPT !.error = NoError,
                            !.ret = Some(IF call.rev = "script"
                                         THEN TestScriptHeartBeat(call.url)
                                         ELSE TestDraftHeartBeat(call.url))]
    /\ UNCHANGED <<rate, codes, tree, roles, canaries, resources, deps, disk, pending, history>>

\* Code.fromInline(code), under the ceiling of the revision
NewInlineCode ==
    /\ call.op = "InlineCode" /\ call.error = Pending
    /\ LET error == InlineCodeCheck(call.limit, call.code) IN
        /\ call' = [call EXCEPT !.error = error,
                                !.detail = IF error = ErrInlineTooLarge
                                           THEN Some(TooLargeDetail(call.limit, call.code))
                                           ELSE None]
        /\ codes' = IF error = NoError THEN Append(codes, InlineCode(call.code)) ELSE codes
    /\ UNCHANGED <<rate, tree, roles, canaries, resources, deps, disk, pending, history>>

\* Code.fromAsset(path).bind(stack): the constructor, then bind on the new instance
FromAsset ==
    /\ call.op = "fromAsset" /\ call.error = Pending
    /\ LET error == AssetCodeCheck(call.rev, call.path)
           cs == Append(codes, AssetCode(call.rev, call.path))
           b == bind(tree, cs, pending, disk, Len(cs), <<"stack">>)
       IN  IF error # NoError
           THEN /\ call' = [call EXCEPT !.error = error]
                /\ UNCHANGED <<codes, tree, pending>>
           ELSE /\ call' = [call EXCEPT !.error = b.error, !.ret = b.ret, !.stage = "bind"]
                /\ codes' = b.codes /\ tree' = b.tree /\ pending' = b.pending
    /\ UNCHANGED <<rate, roles, canaries, resources, deps, disk, history>>

Next ==
    \/ CanaryRate \/ CanaryNew \/ TestCustom \/ NewInlineCode \/ FromAsset
    \/ TestScriptCustomCall \/ TestDraftCustomCall \/ TestHeartBeat

Spec == Init /\ [][Next]_vars

(***************************************************************************)
(* The caller that binds Code instances itself.  It holds two instances    *)
(* and binds them, in any order, to the stack or to a construct in it; the *)
(* event loop writes the archives that are open.                           *)
(***************************************************************************)
BindScopes == { <<"stack">>, <<"stack", "A">> }

CodeTree == { Node(<< >>, "stack", "Stack"), Node(<<"stack">>, "A", "Canary") }

InitCode ==
    /\ call = [op |-> "bind", error |-> NoError]
    /\ rate = None /\ tree = CodeTree /\ roles = {} /\ canaries = {}
    /\ resources = {} /\ deps = {} /\ pending = {} /\ history = << >>
    /\ \E c1 \in CodeSamples, c2 \in CodeSamples : codes = << c1, c2 >>
    /\ disk \in SUBSET { p.segs : p \in {q \in AssetPaths : q.kind = "dir"} }

\* code.bind(scope)
Bind(c, scope) ==
    /\ Len(history) < MaxBinds
    /\ LET b == bind(tree, codes, pending, disk, c, scope) IN
        /\ history' = Append(history, [op |-> "bind", code |-> c, scope |-> scope,
                                       error |-> b.error,
                                       ret |-> b.ret, created |-> b.tree \ tree])
        /\ tree' = b.tree /\ codes' = b.codes /\ pending' = b.pending
    /\ UNCHANGED <<call, rate, roles, canaries, resources, deps, disk>>

\* code.bindToResource(resource) on an instance of lib/code.ts, with the
\* resource of the canary A
BindToResource(c) ==
    /\ Len(history) < MaxBinds
    /\ codes[c].rev # "direct"
    /\ LET b == bindToResource(codes, resources, c, <<"stack", "A", "Resource">>) IN
        /\ history' = Append(history, [op |-> "bindToResource", code |-> c, scope |-> << >>,
                                       error |-> b.error, ret |-> None, created |-> {}])
        /\ resources' = b.resources
    /\ UNCHANGED <<call, rate, codes, tree, roles, canaries, deps, disk, pending>>

\* the event loop runs: the archive streams that are open are written to disk
WriteArchives ==
    /\ pending # {}
    /\ disk' = disk \cup {a.dir : a \in pending}
    /\ pending' = {}
    /\ UNCHANGED <<call, rate, codes, tree, roles, canaries, resources, deps, history>>

NextCode ==
    \/ \E c \in 1..Len(codes), scope \in BindScopes : Bind(c, scope)
    \/ \E c \in 1..Len(codes) : BindToResource(c)
    \/ WriteArchives

SpecCode == InitCode /\ [][NextCode]_vars

(***************************************************************************)
(* The caller that asks canaries for metrics and alarms.  The caller       *)
(* builds two canaries in the stack; it has chosen a canary, a metric name *)
(* and a set of options, and then calls the metric methods and createAlarm *)
(* in any order.                                                           *)
(***************************************************************************)
\* the options a caller may pass to a metric method
MetricOptionInputs ==
    { MetricOptions(s, p, d, l) :
        s \in {None, Some("sum"), Some("avg")},
        p \in {None, Some(Minutes(1))},
        d \in {None, Some([Region |-> <<"eu">>])},
        l \in {None, Some("mine")} }

\* the empty stack of the tests; the caller has chosen the canary it will
\* ask ('mycanary' or 'second'), a metric name and the options
InitMetric ==
    /\ rate = None /\ disk = {} /\ history = << >>
    /\ tree = StackTree /\ codes = << InlineCode(Text("f", 3)) >>
    /\ pending = {} /\ roles = {UserRole}
    /\ canaries = {} /\ resources = {} /\ deps = {}
    /\ \E which \in {"mycanary", "second"}, name \in {"SuccessPercent", "Latency"},
          props \in MetricOptionInputs :
          call = [op |-> "canaries", which |-> which, metricName |-> name,
                  props |-> props, error |-> NoError]

\* new Canary(stack, 'mycanary', ...) and then new Canary(stack, 'second', ...),
\* the second one named and with a location for its artifacts; after the
\* second the caller holds the canary it chose
MetricCanaryNew ==
    /\ call.op = "canaries"
    /\ LET second == canaries # {}
           id == IF second THEN "second" ELSE "mycanary"
           props == IF second
                    THEN [DefaultProps EXCEPT
                            !.canaryName = <<"m", "y", "s", "e", "c", "o", "n", "d">>,
                            !.artifactS3Location = Some(Str_s3Location)]
                    ELSE DefaultProps
           b == Canary(tree, codes, pending, disk, roles, canaries, resources, deps,
                       <<"stack">>, id, props)
       IN  /\ call' = IF second
                      THEN [op |-> "metrics",
                            canary |-> CHOOSE c \in b.canaries :
                                         c.node = PathOf(<<"stack">>, call.which),
                            metricName |-> call.metricName, props |-> call.props,
                            error |-> b.error]
                      ELSE call
           /\ tree' = b.tree /\ codes' = b.codes /\ pending' = b.pending
           /\ roles' = b.roles /\ canaries' = b.canaries
           /\ resources' = b.resources /\ deps' = b.deps
    /\ UNCHANGED <<rate, disk, history>>

\* the caller records what a call returned or threw, and the constructs it registered
Returned(op, id, error, ret, created) ==
    /\ call.op = "metrics"
    /\ Len(history) < MaxCalls
    /\ history' = Append(history, [op |-> op, id |-> id, error |-> error, ret |-> ret,
                                   created |-> created])

\* a variant of the call in which the Metric is a construct registered under the canary
CallMetricRegistered ==
    /\ Returned("metric", "", NoError,
                Some(metric(call.canary, call.metricName, call.props)), {})
    /\ tree' = tree \cup {Node(call.canary.node, call.metricName, "Metric")}
    /\ UNCHANGED <<call, rate, codes, roles, canaries, resources, deps, disk, pending>>

\* canary.metric(metricName, props)
CallMetric ==
    /\ Returned("metric", "", NoError,
                Some(metric(call.canary, call.metricName, call.props)), {})
    /\ UNCHANGED <<call, rate, codes, tree, roles, canaries, resources, deps, disk, pending>>

CallMetricDuration ==
    /\ Returned("metricDuration", "", NoError,
                Some(metricDuration(call.canary, call.props)), {})
    /\ UNCHANGED <<call, rate, codes, tree, roles, canaries, resources, deps, disk, pending>>

CallMetricSuccessPercent ==
    /\ Returned("metricSuccessPercent", "", NoError,
                Some(metricSuccessPercent(call.canary, call.props)), {})
    /\ UNCHANGED <<call, rate, codes, tree, roles, canaries, resources, deps, disk, pending>>

CallMetricFailed ==
    /\ Returned("metricFailed", "", NoError,
                Some(metricFailed(call.canary, call.props)), {})
    /\ UNCHANGED <<call, rate, codes, tree, roles, canaries, resources, deps, disk, pending>>

\* Canary.metricAll(metricName, props)
CallMetricAll ==
    /\ Returned("metricAll", "", NoError, Some(metricAll(call.metricName, call.props)), {})
    /\ UNCHANGED <<call, rate, codes, tree, roles, canaries, resources, deps, disk, pending>>

CallMetricAllSuccessPercent ==
    /\ Returned("metricAllSuccessPercent", "", NoError,
                Some(metricAllSuccessPercent(call.props)), {})
    /\ UNCHANGED <<call, rate, codes, tree, roles, canaries, resources, deps, disk, pending>>

CallMetricAllDuration ==
    /\ Returned("metricAllDuration", "", NoError, Some(metricAllDuration(call.props)), {})
    /\ UNCHANGED <<call, rate, codes, tree, roles, canaries, resources, deps, disk, pending>>

\* canary.createAlarm(id, { metric: canary.metricFailed(props), ... }) with the
\* options of the tests: the failed metric of the canary, a threshold of one,
\* two evaluation periods, the sum
CallCreateAlarm(id, alarmName) ==
    LET props == AlarmProps(metricFailed(call.canary, call.props), 1, 2, Some("sum"),
                            alarmName)
        made == createAlarm(tree, resources, call.canary, id, props)
    IN  /\ Returned("createAlarm", id, made.error, Some(props), made.tree \ tree)
        /\ tree' = made.tree
        /\ resources' = made.resources
        /\ UNCHANGED <<call, rate, codes, roles, canaries, deps, disk, pending>>

NextMetric ==
    \/ MetricCanaryNew
    \/ CallMetric
    \/ CallMetricDuration
    \/ CallMetricSuccessPercent
    \/ CallMetricFailed
    \/ CallMetricAll
    \/ CallMetricAllSuccessPercent
    \/ CallMetricAllDuration
    \/ \E id \in {"myAlarm", "Resource"}, alarmName \in {None, Some("myCanaryAlarm")} :
          CallCreateAlarm(id, alarmName)

SpecMetric == InitMetric /\ [][NextMetric]_vars

(***************************************************************************)
(* Properties of Rate.                                                     *)
(***************************************************************************)
\* a written number: an optional sign, then digits with at most one dot
IsNumeral(n) ==
    LET body == IF n # << >> /\ Head(n) \in {"-", "+"} THEN Tail(n) ELSE n IN
    /\ \E i \in 1..Len(body) : body[i] \in Digits
    /\ \A i \in 1..Len(body) : body[i] \in Digits \cup {"."}
    /\ Cardinality({i \in 1..Len(body) : body[i] = "."}) <= 1

\* the call is new Rate('rate(N unit)') with N a number, and it has returned or thrown
RateShapeCall ==
    /\ call.op = "Rate" /\ call.error # Pending
    /\ call.parts[1] = StrRate \o <<"(">>
    /\ IsNumeral(call.parts[2])
    /\ call.parts[3] = <<" ">>
    /\ call.parts[5] = <<")">>

MatchesRateSyntax(e) ==
    \E d \in RateNumbers, u \in {StrMinute, StrMinutes, StrHour} :
        /\ d # << >> /\ AllDigits(d)
        /\ e = Concat(<<StrRate, <<"(">>, d, <<" ">>, u, <<")">> >>)

\* the expression is rate(<integer> <unit>) and its value is more than 60 minutes or 1 hour
ExceedsOneHour(e) ==
    \E d \in RateNumbers, u \in {StrMinute, StrMinutes, StrHour} :
        /\ d # << >> /\ AllDigits(d)
        /\ e = Concat(<<StrRate, <<"(">>, d, <<" ">>, u, <<")">> >>)
        /\ DigitsValue(d) > (IF u = StrHour THEN 1 ELSE 60)

\* C2: a string that is not rate(<integer> <unit>) fails with the syntax
\* error, and a rate of more than 60 minutes or 1 hour fails with the range error.
CexC2 ==
    (call.op = "Rate" /\ call.error # Pending) =>
        /\ (~MatchesRateSyntax(call.expression) => call.error = ErrRateSyntax)
        /\ (ExceedsOneHour(call.expression) => call.error = ErrRateRange)

(***************************************************************************)
(* Properties of the Canary constructor and of the validators.             *)
(***************************************************************************)
RateErrors == {ErrRateSyntax, ErrRateRange}
NameErrors == {ErrNameFormat, ErrNameLength}
HandlerErrors == {ErrHandlerFormat, ErrHandlerLength}

\* the statement new Canary(...) has been evaluated to its end or to a throw
CanaryDone == call.op = "Canary" /\ call.stage = "done"

\* the Canary constructor was entered: the argument rate did not throw
CanaryEntered == CanaryDone /\ call.error \notin RateErrors

\* the error of the argument rate, when one is given
RateErrorOf(c) == IF c.rateExpr = None THEN NoError ELSE verifyExpression(c.rateExpr[1])

\* the error of binding the caller's code, as yet unbound, to the new canary
BindErrorOf(c) ==
    bind(StackTree, << [codes[c.props.code] EXCEPT !.asset = None] >>, {}, disk,
         1, <<"stack", "Canary">>).error

\* the first error of a sequence of errors, or NoError
FirstError(es) ==
    IF \A i \in 1..Len(es) : es[i] = NoError THEN NoError
    ELSE es[CHOOSE i \in 1..Len(es) :
                es[i] # NoError /\ \A j \in 1..(i - 1) : es[j] = NoError]

\* the rules that the inputs of the call violate
ViolatedRules(c) ==
    {r \in {"name", "handler", "rate"} :
        \/ r = "name" /\ verifyName(c.props.canaryName) # NoError
        \/ r = "handler" /\ verifyHandler(c.props.handler) # NoError
        \/ r = "rate" /\ RateErrorOf(c) # NoError}

\* C3, as stated: with more than one rule violated, the caller sees the
\* error of the earliest in the order name, handler, rate.
CexC3 ==
    (CanaryDone /\ Cardinality(ViolatedRules(call)) > 1 /\ BindErrorOf(call) = NoError) =>
        call.error = FirstError(<<verifyName(call.props.canaryName),
                                  verifyHandler(call.props.handler),
                                  RateErrorOf(call)>>)

\* C3, amended: the caller sees the first error in the order rate (thrown
\* when the Rate is constructed, before the Canary constructor is entered),
\* binding of the code, name (format, then length), handler (format, then length).
ThmC3 ==
    CanaryDone =>
        call.error = FirstError(<<RateErrorOf(call),
                                  BindErrorOf(call),
                                  verifyName(call.props.canaryName),
                                  verifyHandler(call.props.handler)>>)

\* name, handler and rate are all invalid, and the caller sees the rate's error
WitC3 ==
    /\ CanaryDone
    /\ ViolatedRules(call) = {"name", "handler", "rate"}
    /\ call.error = ErrRateRange

\* the name and the handler are invalid, and the caller sees the name's error
WitC3Name ==
    /\ CanaryDone
    /\ ViolatedRules(call) = {"name", "handler"}
    /\ call.error = ErrNameFormat

\* the nodes that the constructor has registered in the stack
Registered(type) == {n \in tree \ StackTree : n.type = type}

\* C4: when the constructor throws on the name or the handler, no bucket,
\* no role and no canary resource has been registered.
CexC4 ==
    (CanaryDone /\ call.error \in NameErrors \cup HandlerErrors) =>
        /\ Registered("Bucket") = {}
        /\ Registered("Role") = {}
        /\ Registered("CfnCanary") = {}

HandlerOk(h) == endsWith(h, StrDotHandler) /\ Len(h) <= 21

\* C6: a handler is accepted iff it ends with '.handler' and has at most 21
\* characters, by the Canary constructor and by Test.custom alike.
CexC6 ==
    /\ (CanaryDone /\ call.error \in {NoError} \cup HandlerErrors) =>
          ((call.error = NoError) <=> HandlerOk(call.props.handler))
    /\ (call.op = "Test.custom" /\ call.error # Pending) =>
          ((call.error = NoError) <=> HandlerOk(call.handler))

Upper == {"A", "B", "C", "D", "E", "F", "G", "H", "I", "J", "K", "L", "M",
          "N", "O", "P", "Q", "R", "S", "T", "U", "V", "W", "X", "Y", "Z"}

\* the name matches ^[0-9a-z_-]+$ and has at most 21 characters
NameOk(n) ==
    /\ n # << >>
    /\ \A i \in 1..Len(n) : n[i] \in Digits \cup Lower \cup {"_", "-"}
    /\ Len(n) <= 21

\* C7: a name passes iff it matches ^[0-9a-z_-]+$ and has at most 21
\* characters, and a name with an uppercase letter makes the construction
\* of the Canary fail with the name-format error.
CexC7 ==
    /\ (CanaryDone /\ call.error \in {NoError} \cup NameErrors \cup HandlerErrors) =>
          ((call.error \notin NameErrors) <=> NameOk(call.props.canaryName))
    /\ (CanaryEntered /\ \E i \in 1..Len(call.props.canaryName) :
                            call.props.canaryName[i] \in Upper) =>
          call.error = ErrNameFormat

\* the resource that the constructor has emitted
TheResource == (CHOOSE r \in resources : TRUE).props

CanarySucceeded == CanaryDone /\ call.error = NoError

\* the defaults of role, rate and timeout, and the options given for them
DefaultsC9 ==
    /\ Cardinality(resources) = 1
    /\ IF call.props.role = None
       THEN /\ Node(<<"stack", "Canary">>, "ServiceRole", "Role") \in tree
            /\ TheResource.executionRoleArn = <<"arn", "stack", "Canary", "ServiceRole">>
       ELSE TheResource.executionRoleArn = call.props.role[1].roleArn
    /\ IF call.rateExpr = None
       THEN TheResource.expression = StrRate \o <<"(", "1", " ">> \o StrMinute \o <<")">>
       ELSE TheResource.expression = call.rateExpr[1]
    /\ IF call.props.timeout = None
       THEN TheResource.timeoutInSeconds = 60
       ELSE TheResource.timeoutInSeconds = call.props.timeout[1].seconds

WitC9Given ==
    /\ CanarySucceeded
    /\ call.props.role # None /\ call.props.artifactS3Location = Some(Str_s3Location)
    /\ call.rateExpr # None /\ call.props.timeout # None
    /\ TheResource.timeoutInSeconds = 30

\* one resource, a role iff none is given, and the edge from the resource to the role used
RegisteredC10 ==
    /\ Cardinality(Registered("CfnCanary")) = 1
    /\ Cardinality(resources) = 1
    /\ Registered("Role") =
          IF call.props.role = None
          THEN {Node(<<"stack", "Canary">>, "ServiceRole", "Role")} ELSE {}
    /\ deps = {[from |-> <<"stack", "Canary", "Resource">>,
                to |-> IF call.props.role = None
                       THEN <<"stack", "Canary", "ServiceRole">>
                       ELSE call.props.role[1].node]}

\* C10, as stated: a bucket is registered iff no artifact location is supplied.
CexC10 ==
    CanarySucceeded =>
        /\ RegisteredC10
        /\ (Registered("Bucket") # {}) <=> (call.props.artifactS3Location = None)

\* C10, amended: a successful construction registers exactly one canary
\* resource, a role iff no role is supplied, a bucket iff the artifact
\* location is left out or empty, and the edge from the resource to the
\* role that is used.
ThmC10 ==
    CanarySucceeded =>
        /\ RegisteredC10
        /\ Registered("Bucket") =
              IF call.props.artifactS3Location \in {None, Some(<< >>)}
              THEN {Node(<<"stack", "Canary">>, "ServiceBucket", "Bucket")} ELSE {}

\* a canary built with a role and a location of the caller registers neither
WitC10 ==
    /\ CanarySucceeded
    /\ call.props.role = Some(UserRole) /\ call.props.artifactS3Location = Some(Str_s3Location)
    /\ Registered("Role") = {} /\ Registered("Bucket") = {}
    /\ deps = {[from |-> <<"stack", "Canary", "Resource">>, to |-> <<"stack", "MyRole">>]}

(***************************************************************************)
(* Properties of Code.bind.                                                *)
(***************************************************************************)
\* the bind calls made on the instance c
BindsOf(c) == {i \in 1..Len(history) : history[i].op = "bind" /\ history[i].code = c}

\* C8: over any sequence of bind calls, an instance has had at most one
\* asset created for it, and its successful binds all return the CodeConfig
\* of the first.
ThmC8 ==
    \A c \in 1..Len(codes) :
        /\ Cardinality(UNION {history[i].created : i \in BindsOf(c)}) <= 1
        /\ Cardinality({i \in BindsOf(c) : history[i].created # {}}) <= 1
        /\ \A i, j \in BindsOf(c) :
              (history[i].error = NoError /\ history[j].error = NoError)
                  => history[i].ret = history[j].ret

\* an asset code has been bound to two scopes, both times with success
WitC8 ==
    \E i, j \in 1..Len(history) :
        /\ i < j
        /\ history[i].op = "bind" /\ history[j].op = "bind"
        /\ history[i].code = history[j].code
        /\ codes[history[i].code].kind = "asset"
        /\ history[i].scope # history[j].scope
        /\ history[i].error = NoError /\ history[j].error = NoError
        /\ history[i].created # {} /\ history[j].created = {}

(***************************************************************************)
(* Properties of the metrics and the alarms.                               *)
(***************************************************************************)
\* the statistic a caller names, as a descriptor reports it
WrittenOut(stat) == IF stat = "sum" THEN "Sum" ELSE IF stat = "avg" THEN "Average" ELSE stat

\* the descriptor with the defaults of the documentation, each replaced by
\* the field the caller supplies
DescriptorOf(name, defaultDimensions, props) ==
    [namespace |-> "CloudWatchSynthetics",
     metricName |-> name,
     dimensions |-> IF props.dimensions = None THEN defaultDimensions ELSE props.dimensions,
     statistic |-> IF props.statistic = None THEN "Average"
                   ELSE WrittenOut(props.statistic[1]),
     period |-> IF props.period = None THEN [seconds |-> 300] ELSE props.period[1],
     label |-> props.label]

CanaryDimension == Some([CanaryName |-> call.canary.canaryName])

\* the calls of the named method made so far
CallsOf(op) == {i \in 1..Len(history) : history[i].op = op}

MetricStep ==
    /\ Len(history') = Len(history) + 1
    /\ history'[Len(history')].op # "createAlarm"
    /\ call.op = "metrics"

\* C12: a call of metric, metricDuration, metricSuccessPercent, metricFailed
\* or of a static metricAll method registers no construct and leaves the
\* canary resources, the roles and the dependencies as they were.
ThmC12 ==
    [][MetricStep => /\ tree' = tree /\ resources' = resources
                     /\ roles' = roles /\ canaries' = canaries /\ deps' = deps]_vars

\* three metric calls were made, a static one among them, and the stack is
\* the stack of the two canaries
WitC12 ==
    /\ call.op = "metrics" /\ Len(history) = 3
    /\ CallsOf("createAlarm") = {}
    /\ CallsOf("metricAll") # {} /\ CallsOf("metric") # {}
    /\ Cardinality(canaries) = 2
    /\ {n \in tree : n.type \in {"Metric", "Alarm"}} = {}

\* C13: metricAll(name), metricAllSuccessPercent and metricAllDuration return
\* the descriptor of the per-canary metric (namespace, name, average, five
\* minutes, the caller's options overriding) without a CanaryName dimension.
ThmC13 ==
    call.op = "metrics" =>
        /\ \A i \in CallsOf("metricAll") :
              history[i].ret = Some(DescriptorOf(call.metricName, None, call.props))
        /\ \A i \in CallsOf("metricAllSuccessPercent") :
              history[i].ret = Some(DescriptorOf("SuccessPercent", None, call.props))
        /\ \A i \in CallsOf("metricAllDuration") :
              history[i].ret = Some(DescriptorOf("Duration", None, call.props))
        /\ \A i \in CallsOf("metricAll") \cup CallsOf("metricAllSuccessPercent")
                    \cup CallsOf("metricAllDuration") :
              \/ history[i].ret[1].dimensions = None
              \/ "CanaryName" \notin DOMAIN history[i].ret[1].dimensions[1]

\* metricAllDuration was called with a period of the caller and returned it,
\* with no dimension
WitC13 ==
    /\ call.op = "metrics"
    /\ call.props.period = Some([seconds |-> 60]) /\ call.props.dimensions = None
    /\ \E i \in CallsOf("metricAllDuration") :
          /\ history[i].ret[1].period = [seconds |-> 60]
          /\ history[i].ret[1].dimensions = None
          /\ history[i].ret[1].namespace = "CloudWatchSynthetics"

\* createAlarm(id, options) has returned or thrown in this step
AlarmStep ==
    /\ call.op = "metrics"
    /\ Len(history') = Len(history) + 1
    /\ history'[Len(history')].op = "createAlarm"

\* the step has registered exactly the alarm id under the canary, with exactly
\* the options passed, and nothing else has changed
ForwardedOnly(e) ==
    /\ tree' = tree \cup {[scope |-> call.canary.node, id |-> e.id, type |-> "Alarm"]}
    /\ tree' # tree
    /\ resources' = resources \cup {[node |-> Append(call.canary.node, e.id),
                                     props |-> e.ret[1]]}
    /\ resources' # resources
    /\ roles' = roles /\ canaries' = canaries /\ deps' = deps

\* C20 as stated: each call of createAlarm registers exactly one alarm
\* under the canary with the id and the options passed, changes nothing
\* else, and the alarm on a metric of the canary has the dimension CanaryName.
CexC20 ==
    [][AlarmStep =>
         LET e == history'[Len(history')] IN
         /\ ForwardedOnly(e)
         /\ e.ret[1].metric.dimensions = CanaryDimension]_vars

\* C20: each call of createAlarm that returns registers exactly one alarm
\* under the canary with the id and the options passed and changes nothing
\* else; a call whose id is in use under the canary throws and changes
\* nothing; the alarm's metric has the dimension CanaryName unless the caller
\* replaced the dimensions of the metric.
ThmC20 ==
    [][AlarmStep =>
         LET e == history'[Len(history')] IN
         /\ e.error = NoError => ForwardedOnly(e)
         /\ e.error # NoError =>
               /\ e.error = ErrDuplicate
               /\ \E n \in tree : n.scope = call.canary.node /\ n.id = e.id
               /\ UNCHANGED <<tree, resources, roles, canaries, deps>>
         /\ e.error = NoError <=> ~(\E n \in tree : n.scope = call.canary.node /\ n.id = e.id)
         /\ call.props.dimensions = None => e.ret[1].metric.dimensions = CanaryDimension
         /\ e.ret[1].metric.metricName = "Failed"]_vars

\* the alarm myAlarm on the failed metric of the canary is registered, without
\* a name, and a second call with the same id has thrown
WitC20 ==
    /\ call.op = "metrics" /\ call.props.dimensions = None
    /\ \E i, j \in CallsOf("createAlarm") :
          /\ i < j /\ history[i].id = "myAlarm" /\ history[j].id = "myAlarm"
          /\ history[i].error = NoError /\ history[j].error = ErrDuplicate
          /\ history[i].ret[1].alarmName = None
          /\ [node |-> Append(call.canary.node, "myAlarm"), props |-> history[i].ret[1]]
                \in resources
          /\ Cardinality({n \in tree : n.type = "Alarm"}) = 1

(***************************************************************************)
(* Properties of the Code variants.                                        *)
(***************************************************************************)
\* Code.fromAsset(path).bind(stack) has returned or thrown
AssetCallDone == call.op = "fromAsset" /\ call.error # Pending

\* the path holds the nested folders nodejs/node_modules
HasLayout(p) ==
    \E i \in 1..(Len(p.segs) - 1) : p.segs[i] = "nodejs" /\ p.segs[i + 1] = "node_modules"

\* what the path resolves to
IsDirectory(p) == p.kind = "dir"
IsZipFile(p) == p.kind = "file" /\ p.ext = ".zip"
IsOtherFile(p) == p.kind = "file" /\ p.ext # ".zip"

\* C14: AssetCode rejects with the structure error a path without the
\* nested folders nodejs/node_modules, rejects with the format error a path
\* (with the folders) that resolves to a file that is not a zip archive, and
\* binds a path with the folders that resolves to a directory or a zip
\* archive to an s3Location.
CexC14 ==
    AssetCallDone =>
        /\ ~HasLayout(call.path) => call.error = ErrAssetStructure
        /\ (HasLayout(call.path) /\ IsOtherFile(call.path)) => call.error = ErrAssetNotZip
        /\ (HasLayout(call.path) /\ (IsDirectory(call.path) \/ IsZipFile(call.path)))
              => /\ call.error = NoError
                 /\ call.ret # None
                 /\ call.ret[1].s3Location # None

\* a call of Test.custom, of any revision, has returned or thrown
TestCustomDone ==
    /\ call.op \in {"Test.custom", "TestScript.custom", "TestDraft.custom"}
    /\ call.error # Pending

\* the handler has the suffix '.handler' and at most 21 characters
ValidHandler(h) ==
    /\ Len(h) >= 8 /\ SubSeq(h, Len(h) - 7, Len(h)) = <<".", "h", "a", "n", "d", "l", "e", "r">>
    /\ Len(h) <= 21

\* C15: Test.custom({code, handler}) fails with the handler error whenever
\* the handler does not end with '.handler' or is longer than 21 characters,
\* so that no custom Test exists with such a handler.
CexC15 ==
    (TestCustomDone /\ ~ValidHandler(call.handler)) =>
        /\ call.error \in HandlerErrors
        /\ call.ret = None

\* the binds made so far that returned
ReturnedBinds ==
    {i \in 1..Len(history) : history[i].op = "bind" /\ history[i].error = NoError}

\* C16: every CodeConfig that bind returns has exactly one of s3Location and
\* inlineCode: the inline code returns the text of its constructor, the S3
\* code the bucket name, the key and the version of its constructor, and the
\* asset code an s3Location.
ThmC16 ==
    call.op = "bind" =>
        \A i \in ReturnedBinds :
            LET config == history[i].ret[1]
                code == codes[history[i].code]
            IN  /\ (config.inlineCode = None) # (config.s3Location = None)
                /\ code.kind = "inline" =>
                      /\ config.inlineCode = Some([ch |-> "f", len |-> 3])
                      /\ config.s3Location = None
                /\ code.kind = "s3" =>
                      /\ config.inlineCode = None
                      /\ config.s3Location[1].bucketName = "mybucket"
                      /\ config.s3Location[1].objectKey = "key"
                      /\ config.s3Location[1].objectVersion = code.s3[1].objectVersion
                      /\ DOMAIN config.s3Location[1] = {"bucketName", "objectKey", "objectVersion"}
                /\ code.kind = "asset" =>
                      /\ config.inlineCode = None
                      /\ config.s3Location # None
                      /\ config.s3Location[1].bucketName = code.asset[1].s3BucketName
                      /\ config.s3Location[1].objectKey = code.asset[1].s3ObjectKey

\* an S3 code with the version v1 and an asset code have both been bound
WitC16 ==
    /\ call.op = "bind"
    /\ \E i, j \in ReturnedBinds :
          /\ codes[history[i].code].kind = "s3"
          /\ history[i].ret[1].s3Location[1].objectVersion = Some("v1")
          /\ codes[history[j].code].kind = "asset"
          /\ history[j].ret[1].s3Location # None

(***************************************************************************)
(* Properties of the emitted resource.                                     *)
(***************************************************************************)
\* the Code instance given to the Canary
GivenCode == codes[call.props.code]

\* C17: the resource of a successful construction has the name and the
\* handler of the caller, the runtime version syn-1.0, and a code block with
\* the script alone for inline code, and with the bucket and the key alone
\* (and the version, when given) for S3 and asset code.
ThmC17 ==
    CanarySucceeded =>
        /\ Cardinality(resources) = 1
        /\ TheResource.name = call.props.canaryName
        /\ NameOk(TheResource.name)
        /\ TheResource.handler = call.props.handler
        /\ ValidHandler(TheResource.handler)
        /\ TheResource.runtimeVersion = <<"s", "y", "n", "-", "1", ".", "0">>
        /\ (TheResource.script = None) # (TheResource.s3Bucket = None)
        /\ (TheResource.s3Bucket = None) = (TheResource.s3Key = None)
        /\ GivenCode.kind = "inline" =>
              /\ TheResource.script = Some([ch |-> "f", len |-> 3])
              /\ TheResource.s3ObjectVersion = None
        /\ GivenCode.kind = "s3" =>
              /\ TheResource.s3Bucket = Some("mybucket")
              /\ TheResource.s3Key = Some("key")
              /\ TheResource.s3ObjectVersion = GivenCode.s3[1].objectVersion
        /\ GivenCode.kind = "asset" =>
              /\ TheResource.s3Bucket = Some(GivenCode.asset[1].s3BucketName)
              /\ TheResource.s3Key = Some(GivenCode.asset[1].s3ObjectKey)
              /\ TheResource.s3ObjectVersion = None

\* a canary was built on the S3 code with the version v1
WitC17 ==
    /\ CanarySucceeded
    /\ GivenCode.kind = "s3"
    /\ TheResource.s3ObjectVersion = Some("v1")
    /\ TheResource.script = None
    /\ TheResource.name = <<"m", "y", "c", "a", "n", "a", "r", "y">>

\* a canary was built on asset code
WitC17Asset ==
    /\ CanarySucceeded
    /\ GivenCode.kind = "asset"
    /\ TheResource.s3Bucket # None

(***************************************************************************)
(* Properties of the schedule of a Canary.                                 *)
(***************************************************************************)
\* the number a rate expression holds, as verifyExpression reads it
NumberPart(e) == split(split(e, " ")[1], "(")[2]

RateAccepted == CanaryDone /\ call.rateExpr # None /\ call.error \notin RateErrors

\* C19: for an expression e that Rate accepts, toString() of the Rate is e
\* and the schedule expression of the Canary built with it is e.
ThmC19 ==
    RateAccepted =>
        /\ rate # None
        /\ RateToString(rate[1]) = call.rateExpr[1]
        /\ call.error = NoError => TheResource.expression = call.rateExpr[1]

\* 'rate(20 minutes)' went through a Canary unchanged
WitC19 ==
    /\ CanarySucceeded
    /\ call.rateExpr = Some(<<"r", "a", "t", "e", "(", "2", "0", " ",
                              "m", "i", "n", "u", "t", "e", "s", ")">>)
    /\ TheResource.expression = call.rateExpr[1]
    /\ RateToString(rate[1]) = call.rateExpr[1]

\* 'rate(01 minute)' was accepted and went through unchanged
WitC19Unusual ==
    /\ CanarySucceeded
    /\ call.rateExpr = Some(<<"r", "a", "t", "e", "(", "0", "1", " ",
                              "m", "i", "n", "u", "t", "e", ")">>)
    /\ TheResource.expression = call.rateExpr[1]

(***************************************************************************)
(* Properties of the optional settings of a Canary.                        *)
(***************************************************************************)
\* C21, as stated: a canary built without a retention period emits 31 days,
\* and a canary built with one emits its number of days.
CexC21 ==
    CanarySucceeded =>
        /\ TheResource.successRetentionPeriod =
              IF call.props.successRetentionPeriod = None THEN Some(31)
              ELSE Some(toDays(call.props.successRetentionPeriod[1]))
        /\ TheResource.failureRetentionPeriod =
              IF call.props.failureRetentionPeriod = None THEN Some(31)
              ELSE Some(toDays(call.props.failureRetentionPeriod[1]))

\* C22: the start flag of the resource of a successful construction is true
\* when enableCanary was left out and is enableCanary when it was given, so
\* a given false stays false.
ThmC22 ==
    CanarySucceeded =>
        /\ call.props.enableCanary = None => TheResource.startCanaryAfterCreation = TRUE
        /\ call.props.enableCanary # None =>
              TheResource.startCanaryAfterCreation = call.props.enableCanary[1]

\* a canary was built with enableCanary: false, and its resource does not start
WitC22 ==
    /\ CanarySucceeded
    /\ call.props.enableCanary = Some(FALSE)
    /\ TheResource.startCanaryAfterCreation = FALSE

(***************************************************************************)
(* Properties of the heartbeat test.                                       *)
(***************************************************************************)
\* a call of Test.heartBeat, of either revision, has returned or thrown
HeartBeatDone == call.op = "Test.heartBeat" /\ call.error # Pending

\* the configuration of the Test a heartBeat call returned
HeartBeatConfig ==
    IF call.rev = "script" THEN call.ret[1].config ELSE call.ret[1].test[1]

\* the script is the template with the url in its place, character for character
EmbedsUrl(script, url) ==
    /\ Len(script) = Len(url) + 2
    /\ SubSeq(script, 2, Len(script) - 1) = url
    /\ script[1] = HeartBeatTemplate(<< >>).inlineCode[1]
    /\ script[Len(script)] = HeartBeatTemplate(<< >>).inlineCode[2]

\* C23, as stated: Test.heartBeat(url) returns, for every url that is not
\* empty, a Test with the handler 'index.handler' and the template script with
\* the url in it as given, and it throws for the empty url.
CexC23 ==
    HeartBeatDone =>
        IF call.url = << >>
        THEN call.error # NoError /\ call.ret = None
        ELSE /\ call.error = NoError
             /\ HeartBeatConfig.handler = <<"i", "n", "d", "e", "x", ".", "h", "a", "n", "d", "l", "e", "r">>
             /\ EmbedsUrl(HeartBeatConfig.inlineCode[1], call.url)

(***************************************************************************)
(* Properties of the execution role.                                       *)
(***************************************************************************)
\* the permissions of a role the constructor creates
FixedPermissions ==
    {"s3:PutObject", "s3:GetBucketLocation", "s3:ListAllMyBuckets",
     "cloudwatch:PutMetricData", "logs:CreateLogGroup", "logs:CreateLogStream",
     "logs:PutLogEvents"}

\* C24: after the constructor has run with a role of the caller, the roles of
\* the stack are the ones from before, with the policies from before, no role
\* is registered under the canary, and the resource of a successful
\* construction runs under the caller's role; a role holds the fixed
\* permissions exactly when it is the ServiceRole the constructor created,
\* which happens only when no role was given.
ThmC24 ==
    CanaryDone =>
        /\ call.props.role # None =>
              /\ roles = {UserRole}
              /\ Registered("Role") = {}
              /\ CanarySucceeded =>
                    TheResource.executionRoleArn = call.props.role[1].roleArn
        /\ \A r \in roles :
              IF r.node = <<"stack", "Canary", "ServiceRole">>
              THEN r.inlinePolicies = FixedPermissions /\ call.props.role = None
              ELSE r = UserRole /\ r.inlinePolicies = {}
        /\ (CanarySucceeded /\ call.props.role = None) =>
              \E r \in roles : /\ r.node = <<"stack", "Canary", "ServiceRole">>
                               /\ TheResource.executionRoleArn = r.roleArn

\* a canary was built with the caller's role, which still has no policy
WitC24 ==
    /\ CanarySucceeded
    /\ call.props.role = Some(UserRole)
    /\ roles = {UserRole}
    /\ TheResource.executionRoleArn = <<"arn", "stack", "MyRole">>

\* a canary was built with a role of its own, which holds the fixed permissions
WitC24Own ==
    /\ CanarySucceeded
    /\ call.props.role = None
    /\ \E r \in roles : r.node = <<"stack", "Canary", "ServiceRole">>
                        /\ r.inlinePolicies = FixedPermissions

(***************************************************************************)
(* Properties of AssetCode: the order of bind and bindToResource, and the   *)
(* archive.                                                                *)
(***************************************************************************)
\* this step is a call of bindToResource on the instance c
BindToResourceStep(c) ==
    /\ Len(history') = Len(history) + 1
    /\ history'[Len(history')].op = "bindToResource"
    /\ history'[Len(history')].code = c

\* C25: a call of bindToResource on an asset code returns only if a bind was
\* called on that instance before; with no bind before, it throws
\* 'bindToResource() must be called after bind()'; when it throws, nothing is
\* changed; on inline and S3 code it returns and changes nothing, whatever
\* was called before.
ThmC25 ==
    [][\A c \in 1..Len(codes) :
          BindToResourceStep(c) =>
              LET e == history'[Len(history')] IN
              IF codes[c].kind = "asset"
              THEN /\ e.error = NoError => BindsOf(c) # {}
                   /\ BindsOf(c) = {} => e.error = ErrBindOrder
                   /\ e.error \in {NoError, ErrBindOrder}
                   /\ e.error # NoError =>
                         UNCHANGED <<codes, tree, resources, disk, pending>>
              ELSE /\ e.error = NoError
                   /\ UNCHANGED <<codes, tree, resources, disk, pending>>]_vars

\* bindToResource threw on an asset code that was not bound, then the code
\* was bound, then bindToResource returned and the resource has the metadata
WitC25 ==
    /\ call.op = "bind" /\ Len(history) = 3
    /\ codes[history[1].code].kind = "asset"
    /\ history[1].code = history[2].code /\ history[2].code = history[3].code
    /\ history[1].op = "bindToResource" /\ history[1].error = ErrBindOrder
    /\ history[2].op = "bind" /\ history[2].error = NoError
    /\ history[3].op = "bindToResource" /\ history[3].error = NoError
    /\ resources # {}

\* the binds that threw the format error 'Asset must be a .zip file or a directory'
FormatErrors ==
    {i \in 1..Len(history) : history[i].op = "bind" /\ history[i].error = ErrAssetNotZip}

\* C26, as stated: a bind that throws the format error has registered no
\* asset and leaves the instance without an asset, so that every later
\* bindToResource on it throws the order error and no later bind on it
\* returns an s3Location.
CexC26 ==
    call.op = "bind" =>
        \A i \in FormatErrors :
            /\ history[i].created = {}
            /\ codes[history[i].code].asset = None
            /\ \A j \in (i + 1)..Len(history) :
                  history[j].code = history[i].code =>
                      IF history[j].op = "bindToResource"
                      THEN history[j].error = ErrBindOrder
                      ELSE history[j].ret = None

\* this step is a bind on an asset code of lib/code.ts that went through createAsset
CreateAssetStep(c) ==
    /\ Len(history') = Len(history) + 1
    /\ history'[Len(history')].op = "bind"
    /\ history'[Len(history')].code = c
    /\ codes[c].kind = "asset" /\ codes[c].rev = "zip" /\ codes[c].asset = None
    /\ codes[c].path[1].kind = "dir"

\* C27, as stated: when createAsset makes the asset from nodejs.zip, the
\* archive it has just finalized is written: no stream of the directory is
\* still to be written, and the asset never finds the file missing.
CexC27 ==
    [][\A c \in 1..Len(codes) :
          CreateAssetStep(c) =>
              /\ \A a \in pending' : a.dir # codes[c].path[1].segs
              /\ history'[Len(history')].error # ErrAssetNotFound]_vars

\* C28, as stated: every archive that createAsset has queued holds exactly
\* the user's files of the directory, each under nodejs/node_modules, also
\* when the directory was packaged before.
CexC28 ==
    call.op = "bind" =>
        \A a \in pending :
            a.entries = { <<"nodejs", "node_modules", file>> : file \in UserFiles(a.dir) }

(***************************************************************************)
(* Properties of the dimension of the per-canary metrics.                  *)
(***************************************************************************)
\* the calls of the per-canary metric methods made so far
CanaryMetricCalls ==
    CallsOf("metric") \cup CallsOf("metricDuration")
        \cup CallsOf("metricSuccessPercent") \cup CallsOf("metricFailed")

\* C29, as stated: every metric a per-canary method returns has the dimension
\* CanaryName with the name of the canary, whatever the options.
CexC29 ==
    call.op = "metrics" =>
        \A i \in CanaryMetricCalls :
            /\ history[i].ret[1].dimensions # None
            /\ "CanaryName" \in DOMAIN history[i].ret[1].dimensions[1]
            /\ history[i].ret[1].dimensions[1].CanaryName = call.canary.canaryName

\* C29, amended: a metric a per-canary method returns has the single
\* dimension CanaryName with the name of the canary when the caller's options
\* hold no dimensions, and exactly the caller's dimensions when they do.
ThmC29 ==
    call.op = "metrics" =>
        \A i \in CanaryMetricCalls :
            IF call.props.dimensions = None
            THEN /\ DOMAIN history[i].ret[1].dimensions[1] = {"CanaryName"}
                 /\ history[i].ret[1].dimensions[1].CanaryName = call.canary.canaryName
                 /\ call.canary.canaryName \in { c.canaryName : c \in canaries }
            ELSE history[i].ret[1].dimensions = call.props.dimensions

\* the first canary was asked for its duration with dimensions of the
\* caller, and the metric holds no CanaryName
WitC29 ==
    /\ call.op = "metrics" /\ call.props.dimensions # None
    /\ call.canary.node = <<"stack", "mycanary">>
    /\ \E i \in CallsOf("metricDuration") :
          "CanaryName" \notin DOMAIN history[i].ret[1].dimensions[1]

\* the first canary was asked for its duration with no dimensions given
WitC29Default ==
    /\ call.op = "metrics" /\ call.props.dimensions = None
    /\ call.canary.node = <<"stack", "mycanary">>
    /\ \E i \in CallsOf("metricDuration") :
          history[i].ret[1].dimensions[1].CanaryName = call.canary.canaryName

(***************************************************************************)
(* Properties of the sources of a Test.                                    *)
(***************************************************************************)
\* a factory of a Test with two sources has returned a Test
TestExists ==
    /\ \/ call.op \in {"Test.custom", "TestDraft.custom"}
       \/ call.op = "Test.heartBeat" /\ call.rev = "draft"
    /\ call.error = NoError

\* the two sources of the Test that was returned: the template
\* configuration and the custom code
SourcesOfTest ==
    IF call.op = "Test.custom"
    THEN <<call.ret[1].testCode, call.ret[1].customCode>>
    ELSE <<call.ret[1].test, call.ret[1].custom>>

\* C30: a Test that custom or heartBeat has returned has exactly one of its
\* two sources: custom sets the custom code alone and heartBeat the template
\* configuration alone.
ThmC30 ==
    TestExists =>
        /\ (SourcesOfTest[1] = None) # (SourcesOfTest[2] = None)
        /\ call.op = "Test.heartBeat" => SourcesOfTest[2] = None
        /\ call.op # "Test.heartBeat" => SourcesOfTest[1] = None

\* Test.custom of lib/code.ts has returned a Test with the custom code alone
WitC30 ==
    /\ TestExists /\ call.op = "Test.custom"
    /\ call.ret[1].customCode # None /\ call.ret[1].testCode = None

\* heartBeat has returned a Test with the template configuration alone
WitC30HeartBeat ==
    /\ TestExists /\ call.op = "Test.heartBeat"
    /\ call.ret[1].test # None /\ call.ret[1].custom = None

====
